---- MODULE Spec2Model ----
(***************************************************************************)
(* Control-flow graph builder, link resolver and column allocator of       *)
(* dump_instrs.py (sprout42/emu_utils).                                    *)
(*                                                                         *)
(* Python objects are kept in two stores indexed by object identity:       *)
(* BLOCK[b] and LINK[l].  BLOCK_LIST.blocks and LINK_LIST.links are        *)
(* sequences of identities.  A dict (BLOCK.links) is the sequence of its   *)
(* values in insertion order, looked up by key (the link's addr).          *)
(* Python's None is the empty set and a present value v is {v}, so that    *)
(* optional integers stay comparable.  List positions are 0-based in the   *)
(* code and 1-based here: blocks[i] of the code is blocks[i + 1].          *)
(***************************************************************************)
EXTENDS Integers, Sequences, FiniteSets, TLC

\* Largest number of lines the line source produces.
MaxLines == 3

\* incr of decode_lines with vle off: every line is four bytes.
LineSize == 4

\* va of decode_lines: the address of the first line (0x100).
Base == 16 * 16

None == {}
Some(v) == {v}
The(o) == CHOOSE v \in o : TRUE

TGT_TYPE == {"FALL", "BRANCH", "RET", "CALL"}

\* range(n) of Python, and next(i for i in range(n) if i not in used).
Range(n) == 0 .. (n - 1)
Min(S) == CHOOSE x \in S : \A y \in S : x <= y
Max(S) == CHOOSE x \in S : \A y \in S : x >= y
SeqSet(s) == {s[i] : i \in 1 .. Len(s)}

VARIABLES
    stream,     \* every LINE decode_lines produced, in order
    lines,      \* decode_blocks: the lines not yet consumed (indexes of stream)
    BLOCK,      \* store of BLOCK objects: [idx, lines, col, links]
    LINK,       \* store of LINK objects: [src, addr, dest, col]
    blocks,     \* BLOCK_LIST.blocks
    links,      \* LINK_LIST.links
    idx,        \* the local idx of decode_blocks, identify_link_targets,
                \* and the position of allocate_columns' outer loop
    src,        \* the block the running loop is at (src / block)
    k,          \* position of the inner loop in src.links
    columns,    \* <<-num_left_cols, num_right_cols>> once finalize computed them
    pc,         \* where the program is
    err,        \* the exception that ended the run, "none" otherwise
    pass,       \* 1: inside decode_blocks; 2: identify_link_targets run again
    snap,       \* the graph as it was when the second run began
    outfd       \* decode_file: "stdout", or the file it opened / closed

vars == <<stream, lines, BLOCK, LINK, blocks, links, idx, src, k, columns,
          pc, err, pass, snap, outfd>>

\* The graph as one value, for the operators that transform it.
Graph == [B |-> BLOCK, L |-> LINK, blocks |-> blocks, links |-> links]

----------------------------------------------------------------------------
(* class LINE / the line source *)

\* Target addresses a branch may carry: every line start, the middle of the
\* first line (0x102), and the first address past the longest stream.
Targets ==
    {Base + LineSize * i : i \in 0 .. MaxLines} \cup {Base + LineSize \div 2}

\* The tgts dict get_op_targets gives decode_blocks for a line at addr, as a
\* set of <<TGT_TYPE, value>> pairs: FALL is the next instruction, RET
\* carries None, BRANCH any address.  CALL carries the called address.
TgtsOf(addr) ==
    LET fall == <<"FALL", Some(addr + LineSize)>>
    IN  {{}, {<<"CALL", Some(Base)>>}}
        \cup {{<<"BRANCH", Some(t)>>} : t \in Targets}
        \cup {{fall, <<"BRANCH", Some(t)>>} : t \in Targets}
        \cup {{<<"RET", None>>}, {fall, <<"RET", None>>}}

\* LINE(addr, data, op): op is None for an undecodable line, and then
\* get_op_targets returns None as well.
LINE(addr) ==
    {[addr |-> addr, size |-> LineSize, op |-> None, tgts |-> None]}
    \cup {[addr |-> addr, size |-> LineSize, op |-> Some("op"), tgts |-> Some(t)]
          : t \in TgtsOf(addr)}

Has(tgts, t) == \E p \in tgts : p[1] = t
Get(tgts, t) == (CHOOSE p \in tgts : p[1] = t)[2]

----------------------------------------------------------------------------
(* class BLOCK *)

NewBLOCK(i, ls) == [idx |-> i, lines |-> ls, col |-> None, links |-> <<>>]

\* BLOCK.__len__: sum(l.size for l in self.lines)
RECURSIVE SumSize(_, _)
SumSize(ls, S) == IF ls = <<>> THEN 0 ELSE S[Head(ls)].size + SumSize(Tail(ls), S)
BLOCK_len(G, b) == SumSize(G.B[b].lines, stream)

BLOCK_start(G, b) == stream[G.B[b].lines[1]].addr
BLOCK_last_line(G, b) == stream[G.B[b].lines[Len(G.B[b].lines)]]
BLOCK_end(G, b) == BLOCK_last_line(G, b).addr + BLOCK_last_line(G, b).size

\* BLOCK.__contains__
\* Variant: the end address counts as inside the block.
BLOCK_contains_inclusive(G, b, addr) ==
    addr >= BLOCK_start(G, b) /\ addr <= BLOCK_end(G, b)
BLOCK_contains(G, b, addr) == addr >= BLOCK_start(G, b) /\ addr < BLOCK_end(G, b)

\* The position in b.links of the link keyed addr (0 when there is none).
LinkAt(G, b, addr) ==
    LET hits == {i \in 1 .. Len(G.B[b].links) : G.L[G.B[b].links[i]].addr = addr}
    IN  IF hits = {} THEN 0 ELSE Min(hits)

\* Variant: no lookup in the block's map, every call makes a new edge.
LINK_LIST_add_always(G, b, addr, dest) ==
    LET l == Len(G.L) + 1
    IN  [G EXCEPT !.L = Append(@, [src |-> b, addr |-> addr,
                                   dest |-> dest, col |-> None]),
                  !.B[b].links = Append(@, l),
                  !.links = Append(@, l)]

\* BLOCK.add_link followed by the bookkeeping of LINK_LIST.add.
LINK_LIST_add(G, b, addr, dest) ==
    LET at == LinkAt(G, b, addr)
    IN  IF at # 0
        THEN LET l == G.B[b].links[at]
                 G1 == [G EXCEPT !.L[l].dest = dest]
             IN  IF l \in SeqSet(G1.links) THEN G1
                 ELSE [G1 EXCEPT !.links = Append(@, l)]
        ELSE LET l == Len(G.L) + 1
             IN  [G EXCEPT !.L = Append(@, [src |-> b, addr |-> addr,
                                            dest |-> dest, col |-> None]),
                           !.B[b].links = Append(@, l),
                           !.links = Append(@, l)]

\* BLOCK_LIST.add_link with src and dest already looked up as objects.
add_link(G, b, addr, dest) == LINK_LIST_add(G, b, addr, dest)

----------------------------------------------------------------------------
(* class LINK *)

LINK_valid(G, l) == G.L[l].dest # None
LINK_backwards(G, l) ==
    LINK_valid(G, l) /\ G.B[The(G.L[l].dest)].idx <= G.B[G.L[l].src].idx
LINK_forwards(G, l) ==
    LINK_valid(G, l) /\ G.B[The(G.L[l].dest)].idx > G.B[G.L[l].src].idx

\* LINK.__contains__ for a block index
LINK_contains(G, l, block) ==
    \/ /\ LINK_forwards(G, l)
       /\ G.B[G.L[l].src].idx <= block
       /\ G.B[The(G.L[l].dest)].idx > block
    \/ /\ LINK_backwards(G, l)
       /\ G.B[G.L[l].src].idx >= block
       /\ G.B[The(G.L[l].dest)].idx <= block

\* LINK.col (getter): a forward link has the column of its destination.
LINK_col(G, l) ==
    IF LINK_forwards(G, l) THEN G.B[The(G.L[l].dest)].col ELSE G.L[l].col

\* LINK.col (setter)
LINK_set_col(G, l, value) ==
    IF value # None /\ G.L[l].dest # None /\ The(value) >= 0
    THEN [G EXCEPT !.B[The(G.L[l].dest)].col = value]
    ELSE [G EXCEPT !.L[l].col = value]

\* LINK_LIST.find_active, as the list it yields (in LINK_LIST.links order).
find_active(G, block) ==
    SelectSeq(G.links,
              LAMBDA l : LINK_contains(G, l, block)
                         /\ G.B[The(G.L[l].dest)].col # None)

----------------------------------------------------------------------------
(* BLOCK.split_at and BLOCK_LIST.split_block *)

\* enumerate index of the first line at addr, -1 when the loop finds none.
SplitIndex(G, b, addr) ==
    LET hits == {i \in 1 .. Len(G.B[b].lines) : stream[G.B[b].lines[i]].addr = addr}
    IN  IF hits = {} THEN 0 - 1 ELSE Min(hits) - 1

\* Variant: self keeps lines[idx+1:], the line at addr is lost.
BLOCK_split_at_dropping(G, b, addr) ==
    LET i == SplitIndex(G, b, addr)
        ls == G.B[b].lines
        new_block == NewBLOCK(G.B[b].idx, SubSeq(ls, 1, i))
        self == [G.B[b] EXCEPT !.lines = SubSeq(ls, i + 2, Len(ls)),
                               !.idx = G.B[b].idx + 1]
    IN  [G EXCEPT !.B = Append([G.B EXCEPT ![b] = self], new_block)]

\* Variant: the new block takes lines[:idx+1], the line at addr is in both.
BLOCK_split_at_overlapping(G, b, addr) ==
    LET i == SplitIndex(G, b, addr)
        ls == G.B[b].lines
        new_block == NewBLOCK(G.B[b].idx, SubSeq(ls, 1, i + 1))
        self == [G.B[b] EXCEPT !.lines = SubSeq(ls, i + 1, Len(ls)),
                               !.idx = G.B[b].idx + 1]
    IN  [G EXCEPT !.B = Append([G.B EXCEPT ![b] = self], new_block)]

\* Variant: the new block takes the index after the old one, self stays.
BLOCK_split_at_behind(G, b, addr) ==
    LET i == SplitIndex(G, b, addr)
        ls == G.B[b].lines
        new_block == NewBLOCK(G.B[b].idx + 1, SubSeq(ls, 1, i))
        self == [G.B[b] EXCEPT !.lines = SubSeq(ls, i + 1, Len(ls))]
    IN  [G EXCEPT !.B = Append([G.B EXCEPT ![b] = self], new_block)]

\* BLOCK.split_at when the address is found: the new block (the object
\* Len(G.B) + 1) takes the lines before addr and the old index, self keeps
\* the rest and moves one index up.
BLOCK_split_at(G, b, addr) ==
    LET i == SplitIndex(G, b, addr)
        ls == G.B[b].lines
        new_block == NewBLOCK(G.B[b].idx, SubSeq(ls, 1, i))
        self == [G.B[b] EXCEPT !.lines = SubSeq(ls, i + 1, Len(ls)),
                               !.idx = G.B[b].idx + 1]
    IN  [G EXCEPT !.B = Append([G.B EXCEPT ![b] = self], new_block)]

\* list.insert(i, x) for 0 <= i <= len
Insert(s, i, x) == SubSeq(s, 1, i) \o <<x>> \o SubSeq(s, i + 1, Len(s))

\* The loop of split_block that moves every later block one index up.
RECURSIVE ShiftLoop(_, _, _)
ShiftLoop(B, bs, i) ==
    IF bs = <<>> THEN B
    ELSE LET block == Head(bs)
         IN  ShiftLoop(IF B[block].idx > i
                       THEN [B EXCEPT ![block].idx = B[block].idx + 1] ELSE B,
                       Tail(bs), i)
\* Variant: the later blocks keep their indexes.
ShiftIndexes_skipping(G, i) == G
ShiftIndexes(G, i) == [G EXCEPT !.B = ShiftLoop(G.B, G.blocks, i)]

\* The loop of split_block that moves the links to the old block over to
\* the new block.
RECURSIVE MoveLoop(_, _, _, _)
MoveLoop(L, ls, block, new_block) ==
    IF ls = <<>> THEN L
    ELSE LET link == Head(ls)
         IN  MoveLoop(IF L[link].dest # None /\ L[link].dest = Some(block)
                      THEN [L EXCEPT ![link].dest = Some(new_block)] ELSE L,
                      Tail(ls), block, new_block)
\* Variant: the links to the old block stay where they are.
MoveLinks_skipping(G, block, new_block) == G
MoveLinks(G, block, new_block) ==
    [G EXCEPT !.L = MoveLoop(G.L, G.links, block, new_block)]

\* BLOCK_LIST.split_block(idx, addr) called with a BLOCK: the graph after,
\* the exception raised ("none" when it returns) and the returned index.
split_block(G, b, addr) ==
    LET i == G.B[b].idx
        G1 == ShiftIndexes(G, i)
        block == G1.blocks[i + 1]
        new_block == Len(G1.B) + 1
    IN  IF SplitIndex(G1, block, addr) < 0
        THEN [g |-> G1, err |-> "IndexError", ret |-> i + 1]
        ELSE LET G2 == BLOCK_split_at(G1, block, addr)
                 G3 == [G2 EXCEPT !.blocks = Insert(@, i, new_block)]
                 G4 == MoveLinks(G3, block, new_block)
             IN  IF G4.B[block].lines = <<>>
                 THEN \* block.start: list index out of range
                      [g |-> G4, err |-> "IndexError", ret |-> i + 1]
                 ELSE [g |-> add_link(G4, new_block, Some(BLOCK_start(G4, block)),
                                      Some(G4.blocks[G4.B[block].idx + 1])),
                       err |-> "none", ret |-> i + 1]

----------------------------------------------------------------------------
(* decode_blocks *)

Init ==
    /\ stream = <<>>
    /\ lines = <<>>
    /\ BLOCK = <<NewBLOCK(0, <<>>)>>
    /\ LINK = <<>>
    /\ blocks = <<1>>
    /\ links = <<>>
    /\ idx = 0
    /\ src = 0
    /\ k = 0
    /\ columns = <<>>
    /\ pc = "decode"
    /\ err = "none"
    /\ pass = 1
    /\ snap = <<>>
    /\ outfd \in {"stdout", "open"}

\* One turn of the loop of decode_lines: the next LINE, at va + file_offset,
\* goes into the list decode_blocks makes of them.
decode_lines ==
    /\ pc = "decode"
    /\ Len(stream) < MaxLines
    /\ \E line \in LINE(Base + LineSize * Len(stream)) :
          /\ stream' = Append(stream, line)
          /\ lines' = Append(lines, Len(stream) + 1)
    /\ UNCHANGED <<outfd, BLOCK, LINK, blocks, links, idx, src, k, columns,
                   pc, err, pass, snap>>

\* file_offset reached the end of the firmware: decode_blocks has its list
\* (the first block was added when the graph was made).
decode_blocks ==
    /\ pc = "decode"
    /\ pc' = "build"
    /\ UNCHANGED <<outfd, stream, lines, BLOCK, LINK, blocks, links, idx, src, k, columns,
                   err, pass, snap>>

SetGraph(G) ==
    /\ BLOCK' = G.B
    /\ LINK' = G.L
    /\ blocks' = G.blocks
    /\ links' = G.links

\* BLOCK.add through BLOCK_LIST.__getitem__: blocks[idx].add(line)
BLOCK_add(G, i, n) == [G EXCEPT !.B[G.blocks[i + 1]].lines = Append(@, n)]

\* The pending edges a block-ending line records: FALL first, then BRANCH,
\* else RET, each with dest None.
EndBlock(G, i, tgts) ==
    LET b == G.blocks[i + 1]
        G1 == IF Has(tgts, "FALL") THEN add_link(G, b, Get(tgts, "FALL"), None)
              ELSE G
    IN  IF Has(tgts, "BRANCH") THEN add_link(G1, b, Get(tgts, "BRANCH"), None)
        ELSE add_link(G1, b, Get(tgts, "RET"), None)

\* Variant: only a branch target ends the block, a return does not.
EndsBlock_branch(tgts) == Has(tgts, "BRANCH")

\* Whether a line with these targets ends its block.
EndsBlock(tgts) == Has(tgts, "BRANCH") \/ Has(tgts, "RET")

\* One turn of the while loop of decode_blocks.
DecodeLine ==
    /\ pc = "build"
    /\ lines # <<>>
    /\ LET n == Head(lines)
           line == stream[n]
           G1 == BLOCK_add(Graph, idx, n)
       IN  /\ lines' = Tail(lines)
           /\ IF line.tgts # None /\ EndsBlock(The(line.tgts))
              THEN LET G2 == EndBlock(G1, idx, The(line.tgts))
                   IN  /\ SetGraph([G2 EXCEPT !.B = Append(@, NewBLOCK(idx + 1, <<>>)),
                                              !.blocks = Append(@, Len(G2.B) + 1)])
                       /\ idx' = idx + 1
              ELSE /\ SetGraph(G1)
                   /\ idx' = idx
    /\ UNCHANGED <<outfd, stream, src, k, columns, pc, err, pass, snap>>

\* The while loop ends and decode_blocks calls blocks.finalize().
CallFinalize ==
    /\ pc = "build"
    /\ lines = <<>>
    /\ pc' = "finalize"
    /\ UNCHANGED <<outfd, stream, lines, BLOCK, LINK, blocks, links, idx, src, k,
                   columns, err, pass, snap>>

Raise(e) ==
    /\ pc' = "failed"
    /\ err' = e

----------------------------------------------------------------------------
(* BLOCK_LIST.finalize, first half: the trailing block and the asserts *)

\* Variant: the trailing block is never inspected.
TrailingHasOp_never(G) == FALSE

\* The test that makes finalize raise: the last block has bytes and one of
\* its lines is a decoded instruction.
TrailingHasOp(G) ==
    LET last == G.blocks[Len(G.blocks)]
    IN  /\ BLOCK_len(G, last) # 0
        /\ ~ \A i \in 1 .. Len(G.B[last].lines) : stream[G.B[last].lines[i]].op = None

\* self.blocks.pop()
DropLast(G) == [G EXCEPT !.blocks = SubSeq(@, 1, Len(@) - 1)]

AssertLines(G) == \A i \in 1 .. Len(G.blocks) : BLOCK_len(G, G.blocks[i]) > 0
AssertIndexes(G) == \A i \in 1 .. Len(G.blocks) : G.B[G.blocks[i]].idx = i - 1

finalize ==
    /\ pc = "finalize"
    /\ IF TrailingHasOp(Graph)
       THEN /\ Raise("Exception")
            /\ UNCHANGED <<BLOCK, LINK, blocks, links>>
       ELSE LET G == DropLast(Graph)
            IN  /\ SetGraph(G)
                /\ IF AssertLines(G) /\ AssertIndexes(G)
                   THEN pc' = "identify" /\ err' = err
                   ELSE Raise("AssertionError")
    /\ UNCHANGED <<outfd, stream, lines, idx, src, k, columns, pass, snap>>

----------------------------------------------------------------------------
(* BLOCK_LIST.identify_link_targets *)

\* idx = 0 and the first src = self.blocks[idx] of the loop.
identify_link_targets ==
    /\ pc = "identify"
    /\ idx' = 0
    /\ IF blocks = <<>>
       THEN /\ Raise("IndexError")
            /\ UNCHANGED <<src, k>>
       ELSE /\ src' = blocks[1]
            /\ k' = 1
            /\ pc' = "resolve"
            /\ err' = err
    /\ UNCHANGED <<outfd, stream, lines, BLOCK, LINK, blocks, links, columns, pass, snap>>

\* next(b for b in self.blocks if test(b)), hits being the positions of the
\* blocks that pass the test: the position of the first hit, 0 for
\* StopIteration, -1 when b.start of an empty block raises first.
FirstBlock(G, hits) ==
    LET bad == {i \in 1 .. Len(G.blocks) : G.B[G.blocks[i]].lines = <<>>}
    IN  IF bad # {} /\ (hits = {} \/ Min(bad) < Min(hits)) THEN 0 - 1
        ELSE IF hits = {} THEN 0 ELSE Min(hits)

\* Variant: the lookup by start address always raises StopIteration.
FindStart_never(G, addr) == 0

\* The block whose start is addr.
FindStart(G, addr) ==
    FirstBlock(G, {i \in 1 .. Len(G.blocks) :
                      /\ G.B[G.blocks[i]].lines # <<>>
                      /\ addr = BLOCK_start(G, G.blocks[i])})

\* Variant: the lookup by containment always raises StopIteration.
FindContaining_never(G, addr) == 0

\* The block that contains addr.
FindContaining(G, addr) ==
    FirstBlock(G, {i \in 1 .. Len(G.blocks) :
                      /\ G.B[G.blocks[i]].lines # <<>>
                      /\ BLOCK_contains(G, G.blocks[i], addr)})

\* The try branch: dest is the block at position d, and the link is added
\* to self.blocks[idx].
LinkDirect(G, i, addr, d) ==
    [g |-> add_link(G, G.blocks[i + 1], addr, Some(G.blocks[d])), err |-> "none"]

\* Variant: the split is made but src's link is not given the new block.
LinkSplit_forgetting(G, s, addr, c) ==
    LET r == split_block(G, G.blocks[c], The(addr))
    IN  [g |-> r.g, err |-> r.err]

\* Variant: an error of the split is caught like StopIteration.
LinkSplit_swallowing(G, s, addr, c) ==
    LET r == split_block(G, G.blocks[c], The(addr))
    IN  IF r.err # "none" THEN [g |-> G, err |-> "none"]
        ELSE [g |-> add_link(r.g, s, addr, Some(r.g.blocks[r.ret + 1])),
              err |-> "none"]

\* The except branch when the block at position c contains addr: split it
\* and link src to the block at the returned index.
LinkSplit(G, s, addr, c) ==
    LET r == split_block(G, G.blocks[c], The(addr))
    IN  IF r.err # "none" THEN [g |-> r.g, err |-> r.err]
        ELSE [g |-> add_link(r.g, s, addr, Some(r.g.blocks[r.ret + 1])),
              err |-> "none"]

\* The body of the for loop for one (addr, link) of src.links: the graph
\* after it and the exception it raises.
ResolveOne(G, i, s, l) ==
    LET addr == G.L[l].addr
    IN  IF addr = None \/ LINK_valid(G, l) THEN [g |-> G, err |-> "none"]
        ELSE LET d == FindStart(G, The(addr))
                 c == FindContaining(G, The(addr))
             IN  IF d < 0 THEN [g |-> G, err |-> "IndexError"]
                 ELSE IF d > 0 THEN LinkDirect(G, i, addr, d)
                 ELSE IF c < 0 THEN [g |-> G, err |-> "IndexError"]
                 ELSE IF c > 0 THEN LinkSplit(G, s, addr, c)
                 ELSE [g |-> G, err |-> "none"]

ResolveLink ==
    /\ pc = "resolve"
    /\ k <= Len(BLOCK[src].links)
    /\ LET r == ResolveOne(Graph, idx, src, BLOCK[src].links[k])
       IN  /\ SetGraph(r.g)
           /\ IF r.err = "none"
              THEN /\ k' = k + 1
                   /\ UNCHANGED <<pc, err>>
              ELSE /\ Raise(r.err)
                   /\ k' = k
    /\ UNCHANGED <<outfd, stream, lines, idx, src, columns, pass, snap>>

\* Variant: the scan goes back to the first block instead of the next one.
NextBlock_restarting ==
    /\ pc = "resolve"
    /\ k > Len(BLOCK[src].links)
    /\ IF idx + 1 >= Len(blocks)
       THEN /\ pc' = IF pass = 1 THEN "allocate" ELSE "redone"
            /\ idx' = idx + 1
            /\ UNCHANGED <<src, k>>
       ELSE /\ src' = blocks[1]
            /\ idx' = 0
            /\ k' = 1
            /\ pc' = pc
    /\ UNCHANGED <<outfd, stream, lines, BLOCK, LINK, blocks, links, columns, err,
                   pass, snap>>

\* The for loop is over: idx += 1, and either the next src or the break.
NextBlock ==
    /\ pc = "resolve"
    /\ k > Len(BLOCK[src].links)
    /\ idx' = idx + 1
    /\ IF idx + 1 >= Len(blocks)
       THEN /\ pc' = IF pass = 1 THEN "allocate" ELSE "redone"
            /\ UNCHANGED <<src, k>>
       ELSE /\ src' = blocks[idx + 2]
            /\ k' = 1
            /\ pc' = pc
    /\ UNCHANGED <<outfd, stream, lines, BLOCK, LINK, blocks, links, columns, err,
                   pass, snap>>

----------------------------------------------------------------------------
(* BLOCK_LIST.allocate_columns *)

\* self.blocks[0].col = 0 and the first block of the outer loop.
allocate_columns ==
    /\ pc = "allocate"
    /\ BLOCK' = [BLOCK EXCEPT ![blocks[1]].col = Some(0)]
    /\ idx' = 0
    /\ src' = blocks[1]
    /\ k' = 1
    /\ pc' = "columns"
    /\ UNCHANGED <<outfd, stream, lines, LINK, blocks, links, columns, err, pass, snap>>

\* [l.col for l in active_links if l.forwards and l.col is not None], or
\* the same with l.backwards
UsedCols(G, active_links, forwards) ==
    {The(LINK_col(G, active_links[i])) :
        i \in {j \in 1 .. Len(active_links) :
                  /\ IF forwards THEN LINK_forwards(G, active_links[j])
                                 ELSE LINK_backwards(G, active_links[j])
                  /\ LINK_col(G, active_links[j]) # None}}

\* next(i for i in range(n) if i not in used_cols): {} for StopIteration
NextFree(n, used_cols) ==
    LET free == {i \in Range(n) : i \notin used_cols}
    IN  IF free = {} THEN None ELSE Some(Min(free))

\* Variant: the forward branch always picks column 0.
ForwardCol_zero(used_cols) == Some(0)

\* The column the forward branch of the loop body picks.
ForwardCol(used_cols) ==
    IF used_cols # {} THEN NextFree(Max(used_cols) + 2, used_cols) ELSE Some(0)

\* The column the backward branch of the loop body picks.
BackwardCol(used_cols) ==
    IF used_cols # {} THEN NextFree(Min(used_cols) - 1, used_cols) ELSE Some(0 - 1)

\* Variant: the loop body does not skip a link without destination.
AllocateOne_unchecked(G, block, l) ==
    IF LINK_col(G, l) # None THEN [g |-> G, err |-> "none"]
    ELSE LET active_links == find_active(G, G.B[block].idx)
             col == IF LINK_forwards(G, l)
                    THEN ForwardCol(UsedCols(G, active_links, TRUE))
                    ELSE BackwardCol(UsedCols(G, active_links, FALSE))
         IN  IF col = None THEN [g |-> G, err |-> "StopIteration"]
             ELSE [g |-> LINK_set_col(G, l, col), err |-> "none"]

\* The body of the inner loop for one link of block.
AllocateOne(G, block, l) ==
    IF ~ LINK_valid(G, l) \/ LINK_col(G, l) # None THEN [g |-> G, err |-> "none"]
    ELSE LET active_links == find_active(G, G.B[block].idx)
             col == IF LINK_forwards(G, l)
                    THEN ForwardCol(UsedCols(G, active_links, TRUE))
                    ELSE BackwardCol(UsedCols(G, active_links, FALSE))
         IN  IF col = None THEN [g |-> G, err |-> "StopIteration"]
             ELSE [g |-> LINK_set_col(G, l, col), err |-> "none"]

AllocLink ==
    /\ pc = "columns"
    /\ k <= Len(BLOCK[src].links)
    /\ LET r == AllocateOne(Graph, src, BLOCK[src].links[k])
       IN  /\ SetGraph(r.g)
           /\ IF r.err = "none"
              THEN /\ k' = k + 1
                   /\ UNCHANGED <<pc, err>>
              ELSE /\ Raise(r.err)
                   /\ k' = k
    /\ UNCHANGED <<outfd, stream, lines, idx, src, columns, pass, snap>>

\* The next block of the outer loop, or the return to finalize.
AllocNext ==
    /\ pc = "columns"
    /\ k > Len(BLOCK[src].links)
    /\ idx' = idx + 1
    /\ IF idx + 1 >= Len(blocks)
       THEN /\ pc' = "widths"
            /\ UNCHANGED <<src, k>>
       ELSE /\ src' = blocks[idx + 2]
            /\ k' = 1
            /\ pc' = pc
    /\ UNCHANGED <<outfd, stream, lines, BLOCK, LINK, blocks, links, columns, err,
                   pass, snap>>

\* allocate_columns as one call: the inner loop over block.links.values(),
\* the outer loop over self.blocks, and the whole method on graph G.
RECURSIVE AllocLinks(_, _, _)
AllocLinks(r, block, ls) ==
    IF ls = <<>> \/ r.err # "none" THEN r
    ELSE AllocLinks(AllocateOne(r.g, block, Head(ls)), block, Tail(ls))
RECURSIVE AllocBlocks(_, _)
AllocBlocks(r, bs) ==
    IF bs = <<>> \/ r.err # "none" THEN r
    ELSE AllocBlocks(AllocLinks(r, Head(bs), r.g.B[Head(bs)].links), Tail(bs))
AllocateColumns(G) ==
    AllocBlocks([g |-> [G EXCEPT !.B[G.blocks[1]].col = Some(0)], err |-> "none"],
                G.blocks)

----------------------------------------------------------------------------
(* BLOCK_LIST.finalize, second half *)

MaxOf(S) == IF S = {} THEN 0 ELSE Max(S \cup {0})
Abs(n) == IF n < 0 THEN 0 - n ELSE n

\* max_forwards_col and max_backwards_col over self.links
MaxForwardsCol(G) ==
    MaxOf({The(LINK_col(G, G.links[i])) :
              i \in {j \in 1 .. Len(G.links) : LINK_forwards(G, G.links[j])}})
MaxBackwardsCol(G) ==
    MaxOf({Abs(The(LINK_col(G, G.links[i]))) :
              i \in {j \in 1 .. Len(G.links) : LINK_backwards(G, G.links[j])}})

\* Every block left without a column is placed in column 0.
RECURSIVE DefaultLoop(_, _)
DefaultLoop(B, bs) ==
    IF bs = <<>> THEN B
    ELSE LET block == Head(bs)
         IN  DefaultLoop(IF B[block].col = None
                         THEN [B EXCEPT ![block].col = Some(0)] ELSE B,
                         Tail(bs))
DefaultCols(G) == [G EXCEPT !.B = DefaultLoop(G.B, G.blocks)]

FinalizeColumns ==
    /\ pc = "widths"
    /\ columns' = <<0 - MaxBackwardsCol(Graph), MaxForwardsCol(Graph) + 1>>
    /\ SetGraph(DefaultCols(Graph))
    /\ pc' = "done"
    /\ UNCHANGED <<outfd, stream, lines, idx, src, k, err, pass, snap>>

----------------------------------------------------------------------------
(* identify_link_targets called once more on the finalized graph *)

Rerun ==
    /\ pc = "done"
    /\ pass = 1
    /\ pass' = 2
    /\ snap' = Graph
    /\ idx' = 0
    /\ src' = blocks[1]
    /\ k' = 1
    /\ pc' = "resolve"
    /\ UNCHANGED <<outfd, stream, lines, BLOCK, LINK, blocks, links, columns, err>>

\* decode_file after decode_blocks has returned: the blocks are printed to
\* outfd, which is closed unless it is sys.stdout.
decode_file ==
    /\ pc = "done"
    /\ pass = 1
    /\ pc' = "returned"
    /\ outfd' = IF outfd # "stdout" THEN "closed" ELSE outfd
    /\ UNCHANGED <<stream, lines, BLOCK, LINK, blocks, links, idx, src, k, columns,
                   err, pass, snap>>

Next ==
    \/ decode_lines
    \/ decode_blocks
    \/ DecodeLine
    \/ CallFinalize
    \/ finalize
    \/ identify_link_targets
    \/ ResolveLink
    \/ NextBlock
    \/ allocate_columns
    \/ AllocLink
    \/ AllocNext
    \/ FinalizeColumns
    \/ Rerun
    \/ decode_file

Spec == Init /\ [][Next]_vars

----------------------------------------------------------------------------
(* Vocabulary of the properties, computed from the stores alone *)

\* The bytes of a line of the stream and of a block in store B.
LineAddrs(n) == stream[n].addr .. (stream[n].addr + stream[n].size - 1)
FirstAddr(B, b) == stream[B[b].lines[1]].addr
EndAddr(B, b) ==
    stream[B[b].lines[Len(B[b].lines)]].addr + stream[B[b].lines[Len(B[b].lines)]].size
BlockAddrs(B, b) ==
    IF B[b].lines = <<>> THEN {} ELSE FirstAddr(B, b) .. (EndAddr(B, b) - 1)

\* The lines that end a block, and the lines up to the last of them.
EndingLine(n) ==
    /\ stream[n].tgts # None
    /\ \E p \in The(stream[n].tgts) : p[1] \in {"BRANCH", "RET"}
EndingLines == {n \in 1 .. Len(stream) : EndingLine(n)}
KeptLines == {n \in 1 .. Len(stream) : \E m \in EndingLines : n <= m}
DroppedLines == (1 .. Len(stream)) \ KeptLines

\* The builder makes one block per ending line and the trailing block, so
\* any later object is the front piece of a split.
IsFront(b) == b > Cardinality(EndingLines) + 1
SplitHappened == \E i \in 1 .. Len(blocks) : IsFront(blocks[i])

\* finalize has dropped the trailing block and has not raised.
AfterPop ==
    {"identify", "resolve", "allocate", "columns", "widths", "done", "redone",
     "returned"}

\* An edge's lane as the renderer reads it, and its range of block indexes.
Resolved(l) == LINK[l].dest # None
SrcIdx(l) == BLOCK[LINK[l].src].idx
DestIdx(l) == BLOCK[The(LINK[l].dest)].idx
Lane(l) == IF DestIdx(l) > SrcIdx(l) THEN BLOCK[The(LINK[l].dest)].col ELSE LINK[l].col
Lo(l) == IF SrcIdx(l) < DestIdx(l) THEN SrcIdx(l) ELSE DestIdx(l)
Hi(l) == IF SrcIdx(l) < DestIdx(l) THEN DestIdx(l) ELSE SrcIdx(l)
Overlap(l1, l2) == \E i \in Lo(l1) .. (Hi(l1) - 1) : i \in Lo(l2) .. (Hi(l2) - 1)

\* The link the resolver's inner loop is about to handle.
AtLink == pc = "resolve" /\ k <= Len(BLOCK[src].links)
Cur == BLOCK[src].links[k]

SortedByStart ==
    \A i, j \in 1 .. Len(blocks) :
        (i < j /\ BLOCK[blocks[i]].lines # <<>> /\ BLOCK[blocks[j]].lines # <<>>)
            => FirstAddr(BLOCK, blocks[i]) < FirstAddr(BLOCK, blocks[j])
NonOverlapping ==
    \A i, j \in 1 .. Len(blocks) :
        i # j => BlockAddrs(BLOCK, blocks[i]) \cap BlockAddrs(BLOCK, blocks[j]) = {}
Covered == UNION {BlockAddrs(BLOCK, blocks[i]) : i \in 1 .. Len(blocks)}

----------------------------------------------------------------------------
(* C1 *)

\* C1 as stated: when decode_blocks completes the blocks are sorted by
\* start, pairwise non-overlapping, and cover exactly the bytes of every
\* line the line source produced, trailing undecodable lines included.
C1_CoversEveryLine ==
    pc = "done" =>
        /\ SortedByStart
        /\ NonOverlapping
        /\ Covered = UNION {LineAddrs(n) : n \in 1 .. Len(stream)}

\* C1 as amended: when decode_blocks completes the blocks are sorted by
\* start, pairwise non-overlapping, and cover exactly the bytes of the lines
\* up to and including the last block-ending line; the undecodable lines
\* after it are dropped with the trailing block.
C1_CoversKeptLines ==
    pc = "done" =>
        /\ SortedByStart
        /\ NonOverlapping
        /\ Covered = UNION {LineAddrs(n) : n \in KeptLines}

C1_Witness == pc = "done" /\ DroppedLines # {} /\ SplitHappened

----------------------------------------------------------------------------
(* C2 *)

\* C2: once finalize has dropped the trailing block, every block of the
\* graph has at least one line, in every state up to and after its return,
\* so also after each split of link resolution.
C2_NonEmpty ==
    pc \in AfterPop => \A i \in 1 .. Len(blocks) : Len(BLOCK[blocks[i]].lines) >= 1

C2_Witness ==
    /\ pc = "resolve"
    /\ \E i \in 1 .. Len(blocks) - 1 :
          /\ IsFront(blocks[i])
          /\ Len(BLOCK[blocks[i]].lines) = 1
          /\ Len(BLOCK[blocks[i + 1]].lines) = 1

----------------------------------------------------------------------------
(* C3 *)

\* C3 as stated: after allocate_columns any two distinct resolved edges
\* whose ranges of block indexes [min, max) overlap have different lanes.
C3_LanesDiffer ==
    pc = "done" =>
        \A l1, l2 \in SeqSet(links) :
            (l1 # l2 /\ Resolved(l1) /\ Resolved(l2) /\ Overlap(l1, l2))
                => Lane(l1) # Lane(l2)

----------------------------------------------------------------------------
(* C4 *)

\* What a split of block C at the target T of the link at hand leaves: F is
\* the new front block, put right before C.
C4_SplitStep ==
    LET T == The(LINK[Cur].addr)
    IN  \E i \in 1 .. Len(blocks) :
            LET C == blocks[i]
                F == blocks'[i]
            IN  /\ blocks' = SubSeq(blocks, 1, i - 1) \o <<F>> \o SubSeq(blocks, i, Len(blocks))
                /\ F \notin SeqSet(blocks)
                /\ T \in BlockAddrs(BLOCK, C) /\ T # FirstAddr(BLOCK, C)
                /\ \E n \in SeqSet(BLOCK[C].lines) : stream[n].addr = T
                /\ BLOCK'[F].lines # <<>> /\ BLOCK'[C].lines # <<>>
                /\ SeqSet(BLOCK'[F].lines) \cap SeqSet(BLOCK'[C].lines) = {}
                /\ BLOCK'[F].lines \o BLOCK'[C].lines = BLOCK[C].lines
                /\ EndAddr(BLOCK', F) = T /\ FirstAddr(BLOCK', C) = T
                /\ FirstAddr(BLOCK', F) = FirstAddr(BLOCK, C)
                /\ EndAddr(BLOCK', C) = EndAddr(BLOCK, C)

\* C4: a step of link resolution that splits block C at address T (strictly
\* inside C, the start of one of its lines) puts a new front block right
\* before C; front and tail are non-empty, share no line, concatenate to
\* C's old lines, meet at T, and span C's old range.
C4_SplitCorrect ==
    [][(AtLink /\ Len(blocks') # Len(blocks)) => C4_SplitStep]_vars

C4_Witness ==
    /\ pc = "resolve"
    /\ \E i \in 1 .. Len(blocks) - 1 :
          IsFront(blocks[i]) /\ Len(BLOCK[blocks[i + 1]].lines) >= 2

----------------------------------------------------------------------------
(* C5 *)

\* C5: identify_link_targets run again on the finalized graph raises
\* nothing and leaves the graph as it was: the same blocks with the same
\* indexes, lines and columns, the same edges with the same destinations
\* and lanes.
C5_RerunNoOp == pass = 2 => (pc # "failed" /\ Graph = snap)

C5_Witness ==
    /\ pc = "redone"
    /\ SplitHappened
    /\ \E l \in SeqSet(links) : ~ Resolved(l)
    /\ \E l \in SeqSet(links) : Resolved(l) /\ Lane(l) = Some(0 - 1)

----------------------------------------------------------------------------
(* C6 *)

\* C6: in every state there is at most one edge per (source block, target
\* address) pair, in every block's edge map and in the graph-wide list, and
\* every edge object is listed once.
C6_OneEdgePerPair ==
    /\ \A i, j \in 1 .. Len(links) :
          i # j => <<LINK[links[i]].src, LINK[links[i]].addr>>
                       # <<LINK[links[j]].src, LINK[links[j]].addr>>
    /\ \A b \in 1 .. Len(BLOCK) :
          /\ \A i, j \in 1 .. Len(BLOCK[b].links) :
                i # j => LINK[BLOCK[b].links[i]].addr # LINK[BLOCK[b].links[j]].addr
          /\ \A i \in 1 .. Len(BLOCK[b].links) : LINK[BLOCK[b].links[i]].src = b
    /\ Len(links) = Len(LINK)

\* A pending edge of the builder was added again with its destination.
C6_Witness ==
    \E l \in SeqSet(links) :
        /\ Resolved(l)
        /\ ~ IsFront(LINK[l].src)
        /\ Len(BLOCK[LINK[l].src].links) = 2

----------------------------------------------------------------------------
(* C7 *)

\* C7: when the builder has finished, and from then on through every
\* split that returns, blocks[i].idx = i for every position i and start
\* addresses strictly increase with the index.
C7_DenseOrdered ==
    pc \in AfterPop \cup {"finalize"} =>
        /\ \A i \in 1 .. Len(blocks) : BLOCK[blocks[i]].idx = i - 1
        /\ SortedByStart

C7_Witness ==
    /\ pc = "resolve"
    /\ \E i \in 1 .. Len(blocks) - 2 : IsFront(blocks[i])

----------------------------------------------------------------------------
(* C8 *)

\* The scenario on the contiguous addresses the line source yields: NOP at
\* 0x100, BRANCH at 0x104 to the NOP that follows it, NOP at 0x108.
NOP(addr) ==
    [addr |-> addr, size |-> LineSize, op |-> Some("op"), tgts |-> Some({})]
BRANCH(addr, tgt) ==
    [addr |-> addr, size |-> LineSize, op |-> Some("op"),
     tgts |-> Some({<<"BRANCH", Some(tgt)>>})]
Scenario8 ==
    <<NOP(Base), BRANCH(Base + LineSize, Base + 2 * LineSize), NOP(Base + 2 * LineSize)>>

Decoded == {n \in 1 .. Len(stream) : stream[n].op # None}
LastDecodedEnds == Decoded # {} => EndingLine(Max(Decoded))
Finalized == pc \notin {"decode", "build", "finalize"}

\* C8 as stated: the scenario completes with exactly 2 blocks, [NOP, BRANCH]
\* and [NOP], one forward edge between them and no unresolved edge; and a
\* stream whose last decoded instruction is not a branch/return still
\* finalizes with that instruction in the last block.
C8_ScenarioCompletes ==
    (Finalized /\ ~ LastDecodedEnds) =>
        /\ ~ (pc = "failed" /\ err = "Exception")
        /\ stream = Scenario8 =>
              /\ pc # "failed"
              /\ pc = "done" =>
                    /\ Len(blocks) = 2
                    /\ BLOCK[blocks[1]].lines = <<1, 2>>
                    /\ BLOCK[blocks[2]].lines = <<3>>
                    /\ \A l \in SeqSet(links) : Resolved(l)

\* C8 as amended: finalize raises its exception exactly when the last
\* decoded instruction of the stream is not a branch/return, and then the
\* graph is what the builder left, trailing block included; the scenario is
\* such a stream, so it fails and yields no finalized graph.
C8_TrailingInstructionFails ==
    Finalized =>
        /\ (pc = "failed" /\ err = "Exception") <=> ~ LastDecodedEnds
        /\ (pc = "failed" /\ err = "Exception") =>
              /\ Len(blocks) = Cardinality(EndingLines) + 1
              /\ \E n \in SeqSet(BLOCK[blocks[Len(blocks)]].lines) : stream[n].op # None
              /\ \A l \in SeqSet(links) : ~ Resolved(l)

C8_Witness ==
    /\ stream = Scenario8
    /\ pc = "failed" /\ err = "Exception"
    /\ BLOCK[blocks[1]].lines = <<1, 2>> /\ BLOCK[blocks[2]].lines = <<3>>

----------------------------------------------------------------------------
(* C9 *)

\* The link at hand is pending and its target is inside a block of the
\* graph without being the start of one of that block's lines.
MidLine(l) ==
    /\ LINK[l].addr # None /\ ~ Resolved(l)
    /\ \E i \in 1 .. Len(blocks) :
          /\ The(LINK[l].addr) \in BlockAddrs(BLOCK, blocks[i])
          /\ The(LINK[l].addr) # FirstAddr(BLOCK, blocks[i])
          /\ \A n \in SeqSet(BLOCK[blocks[i]].lines) : stream[n].addr # The(LINK[l].addr)

\* C9: resolving a pending edge whose target lies strictly inside a block
\* but at the start of none of its lines fails with the error of the
\* split, which nothing catches; the edge gets no destination and no split
\* is recorded: the block list, the lines of every block and the edges are
\* what they were.
C9_MidLineFatal ==
    [][(AtLink /\ MidLine(Cur)) =>
          /\ pc' = "failed" /\ err' = "IndexError"
          /\ blocks' = blocks /\ LINK' = LINK /\ links' = links
          /\ Len(BLOCK') = Len(BLOCK)
          /\ \A b \in 1 .. Len(BLOCK) :
                BLOCK'[b].lines = BLOCK[b].lines /\ BLOCK'[b].links = BLOCK[b].links]_vars

C9_Witness ==
    /\ pc = "failed" /\ err = "IndexError"
    /\ blocks # <<>>
    /\ k <= Len(BLOCK[src].links) /\ MidLine(Cur)
    /\ SplitHappened

----------------------------------------------------------------------------
(* C10 *)

\* The edge has no target address, or one that no block of the graph holds.
Outside(l) ==
    \/ LINK[l].addr = None
    \/ \A i \in 1 .. Len(blocks) : The(LINK[l].addr) \notin BlockAddrs(BLOCK, blocks[i])

C10_StillUnresolved ==
    pc \in {"allocate", "columns", "widths", "done", "redone"} =>
        \A l \in SeqSet(links) : Outside(l) => ~ Resolved(l)
C10_NeverFails ==
    (AtLink /\ Outside(Cur)) =>
        /\ pc' = "resolve" /\ err' = "none"
        /\ LINK' = LINK /\ BLOCK' = BLOCK /\ blocks' = blocks

\* C10: handling an edge whose target is none or in no block never fails
\* and changes nothing, and when identify_link_targets has returned every
\* such edge still has no destination, whatever splits the pass made.
C10_OutsideUnresolved == [] C10_StillUnresolved /\ [][C10_NeverFails]_vars

C10_Witness ==
    /\ pc = "done"
    /\ SplitHappened
    /\ \E l \in SeqSet(links) : LINK[l].addr # None /\ Outside(l) /\ ~ Resolved(l)
    /\ \E l \in SeqSet(links) : LINK[l].addr = None

----------------------------------------------------------------------------
(* C11 *)

\* The graph with every column and lane unset, as it is before
\* allocate_columns, and the graph in which edge l was never added.
RECURSIVE ClearBlocks(_, _)
ClearBlocks(B, n) ==
    IF n = 0 THEN B ELSE ClearBlocks([B EXCEPT ![n].col = None], n - 1)
RECURSIVE ClearLinks(_, _)
ClearLinks(L, n) ==
    IF n = 0 THEN L ELSE ClearLinks([L EXCEPT ![n].col = None], n - 1)
Cleared(G) ==
    [G EXCEPT !.B = ClearBlocks(G.B, Len(G.B)), !.L = ClearLinks(G.L, Len(G.L))]
Without(G, l) ==
    [G EXCEPT !.links = SelectSeq(@, LAMBDA x : x # l),
              !.B[G.L[l].src].links = SelectSeq(@, LAMBDA x : x # l)]
NoColumnYet ==
    /\ \A b \in 1 .. Len(BLOCK) : BLOCK[b].col = None
    /\ \A l \in 1 .. Len(LINK) : LINK[l].col = None

\* C11: when allocate_columns has returned, an edge without destination
\* has no lane, and allocate_columns run on the same graph without that
\* edge gives every other edge the lane and every block the column they
\* have with it.
C11_UnresolvedNoInfluence ==
    /\ (pass = 1 /\ pc \in {"identify", "resolve", "allocate"}) => NoColumnYet
    /\ (pass = 1 /\ pc = "widths") =>
          /\ AllocateColumns(Cleared(Graph)) = [g |-> Graph, err |-> "none"]
          /\ \A l \in SeqSet(links) :
                ~ Resolved(l) =>
                    /\ LINK[l].col = None
                    /\ LET A == AllocateColumns(Without(Cleared(Graph), l))
                       IN  /\ A.err = "none"
                           /\ \A l2 \in SeqSet(links) \ {l} :
                                 A.g.L[l2].col = LINK[l2].col
                           /\ \A i \in 1 .. Len(blocks) :
                                 A.g.B[blocks[i]].col = BLOCK[blocks[i]].col

C11_Witness ==
    /\ pass = 1 /\ pc = "widths"
    /\ \E l \in SeqSet(links) : ~ Resolved(l) /\ LINK[l].addr # None
    /\ \E l \in SeqSet(links) : Resolved(l) /\ Lane(l) = Some(0 - 1)
    /\ \E l \in SeqSet(links) : Resolved(l) /\ DestIdx(l) > SrcIdx(l)

----------------------------------------------------------------------------
(* C12 *)

\* decode_file has left, by its return or by an exception nothing catches.
Exited == pc \in {"returned", "failed"}

\* C12 as stated: on every exit path of decode_file, the failures of block
\* building, link resolution and column allocation included, the output
\* file it opened is closed.
C12_ClosedOnEveryExit == (Exited /\ outfd # "stdout") => outfd = "closed"

----------------------------------------------------------------------------
(* C13 *)

Unresolved(L) == {l \in 1 .. Len(L) : L[l].dest = None}
Scanning == pc \in {"identify", "resolve"}

\* A split resolves the edge at hand and adds one edge, the fallthrough from
\* the new front block to the block that was split, with its destination.
C13_SplitResolves ==
    (AtLink /\ Len(blocks') # Len(blocks)) =>
        /\ ~ Resolved(Cur) /\ LINK'[Cur].dest # None
        /\ Len(LINK') = Len(LINK) + 1
        /\ LET f == LINK'[Len(LINK')]
           IN  /\ f.src \notin SeqSet(blocks)
               /\ f.dest # None /\ f.dest = LINK'[Cur].dest
               /\ f.addr = LINK[Cur].addr
        /\ Unresolved(LINK') = Unresolved(LINK) \ {Cur}

\* What is left of the scan: the links of src from position k on, the
\* blocks after position idx, and the splits the lines still allow.
RECURSIVE ScanRest(_)
ScanRest(p) ==
    IF p > Len(blocks) THEN 0
    ELSE Len(BLOCK[blocks[p]].links) + 1 + ScanRest(p + 1)
SplitsLeft == Len(stream) - Len(blocks)
Measure ==
    4 * SplitsLeft
    + (IF pc = "identify" THEN ScanRest(1) + 1
       ELSE ScanRest(idx + 2) + (Len(BLOCK[src].links) + 1 - k) + 1)

\* C13: identify_link_targets terminates: every split resolves one pending
\* edge and adds only a resolved fallthrough edge, no step adds a pending
\* edge, and every step of the scan that does not end it lowers a measure
\* that is never negative: what is left of the block list and of the
\* current block's edges, plus the splits the lines still allow.
C13_Terminates ==
    /\ [][C13_SplitResolves]_vars
    /\ [][Scanning => Unresolved(LINK') \subseteq Unresolved(LINK)]_vars
    /\ [][(Scanning /\ Scanning') => Measure' < Measure]_vars
    /\ [](Scanning => (Measure >= 0 /\ SplitsLeft >= 0))

C13_Witness ==
    /\ pc = "allocate"
    /\ SplitHappened
    /\ Len(blocks) >= 3
    /\ \E l \in SeqSet(links) : ~ Resolved(l) /\ LINK[l].addr # None

----------------------------------------------------------------------------
(* C14 *)

\* The target addresses a block-ending line leaves as pending edges, in the
\* order they are recorded: the fallthrough first, then the branch or, when
\* there is no branch, the return.  Equal addresses make one edge.
Kind(n, t) == {p[2] : p \in {q \in The(stream[n].tgts) : q[1] = t}}
Jump(n) == IF Kind(n, "BRANCH") # {} THEN Kind(n, "BRANCH") ELSE Kind(n, "RET")
PendingOf(n) ==
    IF Kind(n, "FALL") # {} /\ Kind(n, "FALL") # Jump(n)
    THEN <<The(Kind(n, "FALL")), The(Jump(n))>>
    ELSE <<The(Jump(n))>>

C14_BuilderStep ==
    LET n == Head(lines)
        cur == blocks[Len(blocks)]
    IN  /\ BLOCK'[cur].lines = Append(BLOCK[cur].lines, n)
        /\ BLOCK'[cur].idx = BLOCK[cur].idx
        /\ IF EndingLine(n)
           THEN /\ Len(blocks') = Len(blocks) + 1
                /\ SubSeq(blocks', 1, Len(blocks)) = blocks
                /\ BLOCK'[blocks'[Len(blocks')]]
                      = [idx |-> Len(blocks), lines |-> <<>>, col |-> {}, links |-> <<>>]
                /\ Len(BLOCK'[cur].links) = Len(PendingOf(n))
                /\ \A i \in 1 .. Len(PendingOf(n)) :
                      LINK'[BLOCK'[cur].links[i]]
                          = [src |-> cur, addr |-> PendingOf(n)[i], dest |-> {}, col |-> {}]
                /\ links' = links \o BLOCK'[cur].links
           ELSE /\ blocks' = blocks
                /\ LINK' = LINK /\ links' = links
                /\ BLOCK'[cur].links = <<>>

\* C14: a turn of the builder's loop appends the line to the current block;
\* the line ends the block if and only if its targets include a branch or
\* a return, and then its fallthrough target (if any) and after it its
\* branch / return target are the block's pending edges and a new empty
\* block is started; a line with a call target only, with no target, or
\* undecodable leaves the block open and records no edge.
C14_EndsOnBranchOrReturn ==
    [][(pc = "build" /\ lines # <<>>) => C14_BuilderStep]_vars

C14_Witness ==
    /\ pc = "finalize"
    /\ \E i \in 1 .. Len(blocks) :
          LET b == blocks[i]
          IN  /\ Len(BLOCK[b].lines) = 2
              /\ stream[BLOCK[b].lines[1]].tgts # None
              /\ Kind(BLOCK[b].lines[1], "CALL") # {}
              /\ Len(BLOCK[b].links) = 2
              /\ i < Len(blocks)
    /\ \E n \in EndingLines : Kind(n, "RET") # {} /\ Kind(n, "FALL") = {}

----------------------------------------------------------------------------
(* allocate_columns on a graph made with BLOCK_LIST.add and add_link *)

\* MaxLines blocks of one instruction each, and for every block up to two
\* edges, each to the start of a block of the list, already resolved.
RECURSIVE PlainStream(_)
PlainStream(n) ==
    IF n = 0 THEN <<>>
    ELSE Append(PlainStream(n - 1),
                [addr |-> Base + LineSize * (n - 1), size |-> LineSize,
                 op |-> Some("op"), tgts |-> Some({})])
RECURSIVE PlainBlocks(_)
PlainBlocks(n) ==
    IF n = 0 THEN [B |-> <<>>, L |-> <<>>, blocks |-> <<>>, links |-> <<>>]
    ELSE LET G == PlainBlocks(n - 1)
         IN  [G EXCEPT !.B = Append(@, NewBLOCK(n - 1, <<n>>)),
                       !.blocks = Append(@, n)]
OutEdges ==
    {<<>>} \cup {<<d>> : d \in 1 .. MaxLines}
    \cup {p \in (1 .. MaxLines) \X (1 .. MaxLines) : p[1] # p[2]}
RECURSIVE AddEdges(_, _, _)
AddEdges(G, b, ds) ==
    IF ds = <<>> THEN G
    ELSE AddEdges(add_link(G, b, Some(Base + LineSize * (Head(ds) - 1)), Some(Head(ds))),
                  b, Tail(ds))
RECURSIVE BuildGraph(_, _, _)
BuildGraph(G, outs, b) ==
    IF b > Len(G.blocks) THEN G
    ELSE BuildGraph(AddEdges(G, b, outs[b]), outs, b + 1)

InitGraph ==
    /\ stream = PlainStream(MaxLines)
    /\ lines = <<>>
    /\ \E outs \in [1 .. MaxLines -> OutEdges] :
          LET G == BuildGraph(PlainBlocks(MaxLines), outs, 1)
          IN  BLOCK = G.B /\ LINK = G.L /\ blocks = G.blocks /\ links = G.links
    /\ idx = 0
    /\ src = 0
    /\ k = 0
    /\ columns = <<>>
    /\ pc = "allocate"
    /\ err = "none"
    /\ pass = 1
    /\ snap = <<>>
    /\ outfd = "stdout"

NextGraph == allocate_columns \/ AllocLink \/ AllocNext

SpecGraph == InitGraph /\ [][NextGraph]_vars

----------------------------------------------------------------------------
(* C15 *)

\* The loop of allocate_columns is at a backward edge that has no lane yet.
AtBackward ==
    /\ pc = "columns" /\ k <= Len(BLOCK[src].links)
    /\ Resolved(BLOCK[src].links[k])
    /\ DestIdx(BLOCK[src].links[k]) <= SrcIdx(BLOCK[src].links[k])
    /\ LINK[BLOCK[src].links[k]].col = None

\* The lanes of the other backward edges that have one and are active at
\* the source block, and the negative integer closest to -1 outside a set.
ActiveBackwardLanes(b) ==
    {The(LINK[l].col) :
        l \in {x \in SeqSet(links) \ {BLOCK[src].links[k]} :
                  /\ Resolved(x) /\ DestIdx(x) <= SrcIdx(x)
                  /\ LINK[x].col # None
                  /\ DestIdx(x) <= BLOCK[b].idx /\ BLOCK[b].idx <= SrcIdx(x)}}
ClosestFree(used) ==
    0 - Min({n \in 1 .. Cardinality(used) + 1 : (0 - n) \notin used})

----------------------------------------------------------------------------
(* C16 *)

\* The edge has a target address that some block of the list holds.
InRegion(l) ==
    /\ LINK[l].addr # None
    /\ \E i \in 1 .. Len(blocks) : The(LINK[l].addr) \in BlockAddrs(BLOCK, blocks[i])

\* identify_link_targets has returned normally.
Identified == pc \in {"allocate", "columns", "widths", "done", "redone", "returned"}

\* C16: when identify_link_targets has returned normally, every edge of
\* every block whose target address lies in a block of the final list has
\* a destination, wherever the splits of the pass inserted their blocks.
C16_InRegionResolved ==
    Identified =>
        \A i \in 1 .. Len(blocks) :
            \A j \in 1 .. Len(BLOCK[blocks[i]].links) :
                InRegion(BLOCK[blocks[i]].links[j]) => Resolved(BLOCK[blocks[i]].links[j])

\* A block that branches back into the middle of an earlier block: the
\* split puts its front piece before the scan position.
C16_Witness ==
    /\ pc = "allocate"
    /\ \E l \in SeqSet(links) :
          /\ InRegion(l) /\ Resolved(l)
          /\ DestIdx(l) < SrcIdx(l)
          /\ \E i \in 1 .. Len(blocks) - 1 :
                IsFront(blocks[i]) /\ LINK[l].dest = Some(blocks[i + 1])

----------------------------------------------------------------------------
(* C17 *)

----------------------------------------------------------------------------
(* get_op_targets *)

\* An op is None or carries what op.getBranches() reports: up to
\* MaxBranches pairs (bva, bflags), bflags being the set of the envi flags
\* that are set.
MaxBranches == 2
BR == {"BR_PROC", "BR_FALL", "BR_COND"}
Branch == {None, Some(Base), Some(Base + LineSize)} \X (SUBSET BR)
RECURSIVE getBranches(_)
getBranches(n) ==
    IF n = 0 THEN {<<>>}
    ELSE getBranches(n - 1)
         \cup {Append(s, b) : s \in {x \in getBranches(n - 1) : Len(x) = n - 1},
                              b \in Branch}

\* targets[key] = bva
SetTarget(targets, key, bva) == {p \in targets : p[1] # key} \cup {<<key, bva>>}

\* The body of the for loop, with its tests in the order and nesting of the
\* source.
OneBranch(targets, bva, bflags) ==
    IF "BR_PROC" \in bflags
    THEN IF "BR_PROC" \in bflags THEN SetTarget(targets, "CALL", bva)
         ELSE IF "BR_FALL" \in bflags THEN SetTarget(targets, "FALL", bva)
         ELSE IF bva = None THEN SetTarget(targets, "RET", bva)
         ELSE SetTarget(targets, "BRANCH", bva)
    ELSE targets
RECURSIVE BranchLoop(_, _)
BranchLoop(targets, branches) ==
    IF branches = <<>> THEN targets
    ELSE BranchLoop(OneBranch(targets, Head(branches)[1], Head(branches)[2]),
                    Tail(branches))
get_op_targets(op) == IF op = None THEN None ELSE Some(BranchLoop({}, The(op)))

\* decode_blocks with one line to consume, and the statement that asks for
\* its targets.
InitTargets ==
    /\ \E op \in {None} \cup {Some(b) : b \in getBranches(MaxBranches)} :
          stream = <<[addr |-> Base, size |-> LineSize, op |-> op, tgts |-> None]>>
    /\ lines = <<1>>
    /\ BLOCK = <<NewBLOCK(0, <<>>)>>
    /\ LINK = <<>>
    /\ blocks = <<1>>
    /\ links = <<>>
    /\ idx = 0
    /\ src = 0
    /\ k = 0
    /\ columns = <<>>
    /\ pc = "build"
    /\ err = "none"
    /\ pass = 1
    /\ snap = <<>>
    /\ outfd = "stdout"

GetOpTargets ==
    /\ pc = "build"
    /\ lines # <<>>
    /\ stream' = [stream EXCEPT ![Head(lines)].tgts = get_op_targets(stream[Head(lines)].op)]
    /\ lines' = Tail(lines)
    /\ pc' = "targets"
    /\ UNCHANGED <<outfd, BLOCK, LINK, blocks, links, idx, src, k, columns, err,
                   pass, snap>>

NextTargets == GetOpTargets

SpecTargets == InitTargets /\ [][NextTargets]_vars

----------------------------------------------------------------------------
(* C18 *)

\* The kind the claim gives a reported branch.
KindOfBranch(b) ==
    IF "BR_PROC" \in b[2] THEN "CALL"
    ELSE IF "BR_FALL" \in b[2] THEN "FALL"
    ELSE IF b[1] = None THEN "RET"
    ELSE "BRANCH"

\* C18 as stated: the targets of a decoded op hold, for every branch it
\* reports, one descriptor: CALL when the procedure flag is set, FALL when
\* the fallthrough flag is set, RET when the target is None, BRANCH
\* otherwise (the last branch of a kind gives the kind's target); a
\* non-call branch or return so yields a BRANCH or RET descriptor.
C18_KindPerBranch ==
    (pc = "targets" /\ stream[1].op # None) =>
        LET br == The(stream[1].op)
            t == The(stream[1].tgts)
        IN  /\ {p[1] : p \in t} = {KindOfBranch(br[i]) : i \in 1 .. Len(br)}
            /\ \A i \in 1 .. Len(br) :
                  (\A j \in (i + 1) .. Len(br) : KindOfBranch(br[j]) # KindOfBranch(br[i]))
                      => <<KindOfBranch(br[i]), br[i][1]>> \in t

-----------------------------------------------------------------------------
(* C19 *)

SplitFails == AtLink /\ MidLine(Cur)

\* C19: when split_block fails because the address is the start of no line
\* of the target block, the graph is left as it was before the call: no
\* block's index, lines or edges differ, so the blocks after the target
\* block keep their indexes and blocks[i].idx == i still holds.
C19_FailedSplitUnchanged ==
    [][SplitFails =>
          /\ err' = "IndexError"
          /\ BLOCK' = BLOCK /\ LINK' = LINK
          /\ blocks' = blocks /\ links' = links
          /\ \A i \in 1 .. Len(blocks') : BLOCK'[blocks'[i]].idx = i - 1]_vars

-----------------------------------------------------------------------------
(* C20 *)

Forward(l) == Resolved(l) /\ DestIdx(l) > SrcIdx(l)
Allocated == pc = "widths"

\* Two forward edges into different blocks that are both drawn next to some
\* block: the later source lies before the earlier destination.
ForwardOverlap(l1, l2) ==
    /\ Forward(l1) /\ Forward(l2)
    /\ LINK[l1].dest # LINK[l2].dest
    /\ Max({SrcIdx(l1), SrcIdx(l2)}) < Min({DestIdx(l1), DestIdx(l2)})

\* C20: after allocate_columns the lane of a forward edge is the column of
\* its destination block and is not negative, and two forward edges with
\* different destination blocks and overlapping active ranges have
\* different lanes.
C20_ForwardLanes ==
    Allocated =>
        /\ \A l \in SeqSet(links) :
              Forward(l) =>
                  /\ LINK_col(Graph, l) = BLOCK[The(LINK[l].dest)].col
                  /\ LINK_col(Graph, l) # None
                  /\ The(LINK_col(Graph, l)) >= 0
        /\ \A l1, l2 \in SeqSet(links) :
              ForwardOverlap(l1, l2) => LINK_col(Graph, l1) # LINK_col(Graph, l2)

C20_Witness ==
    /\ Allocated
    /\ \E l1, l2 \in SeqSet(links) :
          /\ ForwardOverlap(l1, l2)
          /\ The(LINK_col(Graph, l1)) > 0
    /\ \E l1, l2 \in SeqSet(links) :
          /\ l1 # l2 /\ Forward(l1) /\ Forward(l2)
          /\ LINK[l1].dest = LINK[l2].dest

-----------------------------------------------------------------------------
(* C21 *)

\* LINK.forwards and LINK.backwards of link l read in the stores B and L.
ForwardsIn(B, L, l) == L[l].dest # None /\ B[The(L[l].dest)].idx > B[L[l].src].idx
BackwardsIn(B, L, l) == L[l].dest # None /\ B[The(L[l].dest)].idx <= B[L[l].src].idx

\* C21: once an edge is resolved its classification never changes during
\* the rest of link resolution: over every step of the scan, splits of its
\* source block, of its destination block and of a block that is both
\* included, a resolved edge stays resolved, a forward edge stays forward
\* and a backward edge stays backward.
C21_ClassificationStable ==
    [][Scanning =>
          \A l \in 1 .. Len(LINK) :
              LINK[l].dest # None =>
                  /\ LINK'[l].dest # None
                  /\ ForwardsIn(BLOCK, LINK, l) <=> ForwardsIn(BLOCK', LINK', l)
                  /\ BackwardsIn(BLOCK, LINK, l) <=> BackwardsIn(BLOCK', LINK', l)]_vars

\* The edge just resolved came from a later block and split block d, whose
\* front piece f now precedes it; d's own edges were resolved before the
\* split: one went back to d itself and now goes to f, one goes forward.
C21_Witness ==
    /\ pc = "resolve" /\ k > 1 /\ k - 1 <= Len(BLOCK[src].links)
    /\ LET t == BLOCK[src].links[k - 1]
       IN  /\ Resolved(t)
           /\ SrcIdx(t) > DestIdx(t) /\ DestIdx(t) > 0
           /\ LET d == The(LINK[t].dest)
                  f == blocks[BLOCK[d].idx]
              IN  /\ IsFront(f)
                  /\ \A l \in SeqSet(links) :
                        LINK[l].dest = Some(d) => (l = t \/ LINK[l].src = f)
                  /\ \E l \in SeqSet(links) :
                        /\ LINK[l].src = d /\ LINK[l].dest = Some(f)
                        /\ BackwardsIn(BLOCK, LINK, l)
                  /\ \E l \in SeqSet(links) :
                        LINK[l].src = d /\ ForwardsIn(BLOCK, LINK, l)

====
